---- MODULE Spec2Model ----
(***************************************************************************)
(* A model of include/CL/implementation/sycl-implementation.hpp: the       *)
(* range algebra, nd_range, the recursive iterator ParallelForIterate, its *)
(* OpenMP variant, the two parallel_for launches, and buffer/accessor.     *)
(*                                                                         *)
(* Vectors (range, id) are functions 1..D -> Int: slot k of the C++ vector *)
(* (0-based) is slot k+1 here.                                             *)
(***************************************************************************)
EXTENDS Integers, Sequences, FiniteSets, TLC

\* static_assert(1 <= Dimensions && Dimensions <= 3)
MaxDims == 3

\* Bounds of the model.
MaxSize == 2
MaxInner == 1
MaxThreads == 2
MaxGlobal == 4
MaxLocal == 2
MaxWork == 8
MaxDivByZero == 1
MaxOffset == 1
MaxDivGlobal == 10
MaxDivLocal == 3
MaxExtent == 2
MaxElems == 4
MaxWrites == 2

VARIABLES
  mode,        \* which launch runs: "seq" (parallel_for(range), no _OPENMP),
               \* "omp" (parallel_for(range), _OPENMP), "nd" (parallel_for(nd_range)),
               \* "div" (get_group_range() alone), "buf" (buffers only)
  D,           \* Dimensions
  r,           \* the range<Dimensions> argument of the flat launch
  ndr,         \* the nd_range argument: GlobalRange, LocalRange, Offset
  nthreads,    \* size of the OpenMP team
  status,      \* "init", "running", "returned", "thrown", "terminating",
               \* "terminated", "trapped"
  frames,      \* per thread: the stack of active ParallelForIterate constructors
  index,       \* the id<> index buffers of the flat launch
  writer,      \* ghost: which thread last wrote each slot of each index buffer
  Group,       \* parallel_for(nd_range): id<Dimensions> Group
  Local,       \* parallel_for(nd_range): id<Dimensions> Local
  GroupRange,  \* parallel_for(nd_range): range<Dimensions> GroupRange
  LocalRange,  \* parallel_for(nd_range): range<Dimensions> LocalRange
  Index,       \* parallel_for(nd_range): item<Dimensions> Index
  pending,     \* iterations of the omp for not yet handed to a thread
  calls,       \* ghost: per thread, the kernel invocations it made, in order
  picked,      \* ghost: per thread, the omp for iterations it was handed
  fail,        \* ghost: the kernel invocation that threw, if any
  heap,        \* the storage regions: the caller's array and the Allocation of B1, B2
  B1,          \* a buffer
  B2,          \* the buffer constructed from B1, once it is
  writes,      \* ghost: the number of writes made through accessors
  last         \* ghost: the last write made through an accessor

launchVars == <<mode, D, r, ndr, nthreads, status, frames, index, writer, Group,
                Local, GroupRange, LocalRange, Index, pending, calls, picked, fail>>

bufVars == <<heap, B1, B2, writes, last>>

vars == <<launchVars, bufVars>>

Threads == 1..MaxThreads

-----------------------------------------------------------------------------
(* Index/range algebra                                                     *)

\* range() : vector(Dimensions) {}
Zero(d) == [k \in 1..d |-> 0]

Abs(x) == IF x < 0 THEN -x ELSE x

\* The C++ integer division a/b for b # 0: truncation toward zero.
CDiv(a, b) ==
  IF (a >= 0) = (b > 0) THEN Abs(a) \div Abs(b) ELSE -(Abs(a) \div Abs(b))

\* One component of operator/ with a non-zero divisor.
\* (A faulty variant: the division without the rounding term.)
CeilDivFloorBug(dividend, divisor) == CDiv(dividend, divisor)
CeilDiv(dividend, divisor) == CDiv(dividend + divisor - 1, divisor)

\* operator/(range, range) where every divisor[i] # 0
RangeDiv(dividend, divisor) ==
  [i \in DOMAIN dividend |-> CeilDiv(dividend[i], divisor[i])]

\* operator*(range, range)
RangeMul(a, b) == [i \in DOMAIN a |-> a[i] * b[i]]

\* operator+(range, range)
RangeAdd(a, b) == [i \in DOMAIN a |-> a[i] + b[i]]

\* The values an integer division by zero may leave in result[i] on a build
\* where it does not trap.
DivByZeroValues == 0..MaxDivByZero

\* operator/ over any operands.  A zero divisor[i] makes the C++ division
\* undefined: the build either traps (SIGFPE) or leaves some value in result[i].
DivOutcomes(dividend, divisor) ==
  LET comp(i) == IF divisor[i] # 0
                 THEN {CeilDiv(dividend[i], divisor[i])}
                 ELSE DivByZeroValues
      all == UNION {comp(i) : i \in DOMAIN dividend}
  IN IF \A i \in DOMAIN divisor : divisor[i] # 0
     THEN {[trap |-> FALSE, value |-> RangeDiv(dividend, divisor)]}
     ELSE {[trap |-> TRUE, value |-> Zero(Len(dividend))]} \cup
          {[trap |-> FALSE, value |-> w] :
             w \in {v \in [DOMAIN dividend -> all] :
                      \A i \in DOMAIN dividend : v[i] \in comp(i)}}

\* nd_range::get_group_range()
\* (A faulty variant: the global range taken as the group range.)
GetGroupRangeNoDivision(nd) == {[trap |-> FALSE, value |-> nd.GlobalRange]}
GetGroupRange(nd) == DivOutcomes(nd.GlobalRange, nd.LocalRange)

\* The product of the components of a vector of 1 to 3 dimensions.
Prod(v) == IF Len(v) = 1 THEN v[1]
           ELSE IF Len(v) = 2 THEN v[1] * v[2]
           ELSE v[1] * v[2] * v[3]

-----------------------------------------------------------------------------
(* The recursive iterator                                                  *)

\* The team of the parallel region (one thread outside OpenMP).
Team == 1..nthreads

\* The 0-based slot Range::dimensionality - level, as a slot of 1..D.
\* (A faulty variant: the loops nested the other way round, dimension D-1
\* outermost.)
SlotOfInnermostFirst(level) == level
SlotOf(level) == D - level + 1

\* The index buffer thread t iterates with: `id<> index` is declared inside the
\* parallel region, so each thread has its own.
\* (A faulty variant: one index declared outside the region, shared by the team.)
IndexOfShared(t) == 1
IndexOf(t) == t

\* The Range &r an iteration runs over.
RangeOf(it) == CASE it = "group" -> GroupRange
                 [] it = "local" -> LocalRange
                 [] OTHER -> r

\* A ParallelForIterate<level> constructor that has just been entered: its
\* loop variables _sycl_index and _sycl_end; level 0 is the specialisation
\* that calls f, inf telling whether f has been entered.
\* (A faulty variant: the loop condition _sycl_index <= _sycl_end.)
NewFrameInclusive(it, level, rg) ==
  [it |-> it, level |-> level, i |-> 0,
   end |-> IF level > 0 THEN rg[D - level + 1] + 1 ELSE 0,
   inf |-> FALSE]
NewFrame(it, level, rg) ==
  [it |-> it, level |-> level, i |-> 0,
   end |-> IF level > 0 THEN rg[SlotOf(level)] ELSE 0,
   inf |-> FALSE]

Top(stack) == stack[Len(stack)]
Front(stack) == SubSeq(stack, 1, Len(stack) - 1)

\* The stack once its top constructor has returned: a functor whose inner
\* iteration is over returns too, the body of the omp for ends, and an
\* enclosing loop does _sycl_index++.
RECURSIVE Return(_)
Return(stack) ==
  LET rest == Front(stack) IN
  IF rest = <<>> THEN <<>>
  ELSE IF Top(rest).level = 0 THEN Return(rest)
  ELSE IF Top(rest).it = "omp" THEN <<>>
  ELSE [rest EXCEPT ![Len(rest)].i = @ + 1]

\* Ghost: the loop counters of the enclosing loops of one iteration, outermost
\* first.
RECURSIVE Pos(_, _)
Pos(stack, its) ==
  IF stack = <<>> THEN <<>>
  ELSE LET f == stack[1] IN
       IF f.level > 0 /\ f.it \in its
       THEN <<f.i>> \o Pos(Tail(stack), its)
       ELSE Pos(Tail(stack), its)

\* Ghost: the number of kernel invocations made so far by threads 1..n.
RECURSIVE CallsUpTo(_)
CallsUpTo(n) == IF n = 0 THEN 0 ELSE Len(calls[n]) + CallsUpTo(n - 1)
TotalCalls == CallsUpTo(MaxThreads)

\* A thread that can take a step: the launch is in progress (or the process
\* is on its way down after std::terminate) and the thread has not thrown.
Active(t) ==
  /\ t \in Team
  /\ status \in {"running", "terminating"}
  /\ fail.by # t

\* The implicit barrier closing `#pragma omp parallel`: every thread of the
\* team has finished its share of the omp for.
\* (A faulty variant: no barrier, the master leaves when its own share is done.)
RegionDoneMasterOnly == pending = {} /\ frames[1] = <<>>
RegionDone == pending = {} /\ \A t \in Team : frames[t] = <<>>

\* The launch has nothing left to run.
LaunchDone == IF mode = "omp" THEN RegionDone ELSE frames[1] = <<>>

-----------------------------------------------------------------------------
(* Inputs                                                                  *)

FlatSizes(d) == [1..d -> 0..MaxSize]

\* The sizes tried under OpenMP: the dimensions below the outermost one, which each
\* thread walks alone, are kept shorter.
OmpSizes(d) == {v \in FlatSizes(d) : \A k \in 2..d : v[k] <= MaxInner}

Max(a, b) == IF a >= b THEN a ELSE b

\* The nd_ranges tried: those whose work, padded to whole groups, is at most MaxWork.
NdRanges(d) ==
  LET Work(nd) == Prod([k \in 1..d |->
                         Max(Max(nd.GlobalRange[k], nd.LocalRange[k]), 1)])
      all == {[GlobalRange |-> g, LocalRange |-> l, Offset |-> [k \in 1..d |-> o]] :
                g \in [1..d -> 0..MaxGlobal], l \in [1..d -> 0..MaxLocal],
                o \in {0, MaxOffset}}
  IN {nd \in all : Work(nd) <= MaxWork}

NoNdRange == [GlobalRange |-> <<>>, LocalRange |-> <<>>, Offset |-> <<>>]

NoFail == [at |-> 0, by |-> 0]

Regions == {"host", "alloc1", "alloc2"}

\* No buffer constructed.
NoBuffer == [Allocation |-> "none",
             Access |-> [base |-> "none", extents |-> <<>>],
             ReadOnly |-> FALSE]

NoWrite == [buf |-> 0, idx |-> <<>>, val |-> 0]

NoBuffers ==
  /\ heap = [g \in Regions |-> <<>>]
  /\ B1 = NoBuffer
  /\ B2 = NoBuffer
  /\ writes = 0
  /\ last = NoWrite

\* What the launch's locals hold before the launch is called.
LaunchLocalsInit ==
  /\ status = "init"
  /\ frames = [t \in Threads |-> <<>>]
  /\ index = [t \in Threads |-> Zero(D)]
  /\ writer = [t \in Threads |-> Zero(D)]
  /\ Group = <<>>
  /\ Local = <<>>
  /\ GroupRange = <<>>
  /\ LocalRange = <<>>
  /\ Index = <<>>
  /\ pending = {}
  /\ calls = [t \in Threads |-> <<>>]
  /\ picked = [t \in Threads |-> <<>>]
  /\ fail = NoFail

InitSeq ==
  /\ mode = "seq"
  /\ D \in 1..MaxDims
  /\ r \in FlatSizes(D)
  /\ ndr = NoNdRange
  /\ nthreads = 1
  /\ LaunchLocalsInit
  /\ NoBuffers

InitOmp ==
  /\ mode = "omp"
  /\ D \in 1..MaxDims
  /\ r \in OmpSizes(D)
  /\ ndr = NoNdRange
  /\ nthreads \in 1..MaxThreads
  /\ LaunchLocalsInit
  /\ NoBuffers

InitNd ==
  /\ mode = "nd"
  /\ D \in 1..MaxDims
  /\ r = <<>>
  /\ ndr \in NdRanges(D)
  /\ nthreads = 1
  /\ LaunchLocalsInit
  /\ NoBuffers

Init == InitSeq \/ InitOmp \/ InitNd

-----------------------------------------------------------------------------
(* The launches                                                            *)

\* parallel_for(range, f) without _OPENMP: one index, ParallelForIterate<Dimensions>.
ParallelForSeq ==
  /\ mode = "seq" /\ status = "init"
  /\ status' = "running"
  /\ index' = [index EXCEPT ![1] = Zero(D)]
  /\ frames' = [frames EXCEPT ![1] = <<NewFrame("flat", D, r)>>]
  /\ UNCHANGED bufVars
  /\ UNCHANGED <<mode, D, r, ndr, nthreads, writer, Group, Local, GroupRange,
                 LocalRange, Index, pending, calls, picked, fail>>

\* parallel_for(range, f) with _OPENMP: ParallelOpenMPForIterate<Dimensions> opens
\* the parallel region; every thread gets its index and _sycl_end, and the omp for
\* has the iterations 0 .. _sycl_end - 1 to hand out.
ParallelForOmp ==
  /\ mode = "omp" /\ status = "init"
  /\ status' = "running"
  /\ index' = [t \in Threads |-> Zero(D)]
  /\ pending' = 0..(r[SlotOf(D)] - 1)
  /\ UNCHANGED bufVars
  /\ UNCHANGED <<mode, D, r, ndr, nthreads, frames, writer, Group, Local,
                 GroupRange, LocalRange, Index, calls, picked, fail>>

\* parallel_for(nd_range, f): the locals Index, Group, GroupRange, Local,
\* LocalRange, then the iteration over the work-groups.
ParallelForNd ==
  /\ mode = "nd" /\ status = "init"
  /\ \E g \in GetGroupRange(ndr) :
       IF g.trap
       THEN /\ status' = "trapped"
            /\ UNCHANGED <<frames, Group, Local, GroupRange, LocalRange, Index>>
       ELSE /\ status' = "running"
            /\ Index' = [GlobalIndex |-> Zero(D), LocalIndex |-> Zero(D),
                         NDRange |-> ndr]
            /\ Group' = Zero(D)
            /\ GroupRange' = g.value
            /\ Local' = Zero(D)
            /\ LocalRange' = ndr.LocalRange
            /\ frames' = [frames EXCEPT ![1] = <<NewFrame("group", D, g.value)>>]
  /\ UNCHANGED bufVars
  /\ UNCHANGED <<mode, D, r, ndr, nthreads, index, writer, pending, calls,
                 picked, fail>>

\* One iteration of the omp for is handed to thread t, which sets its slot of
\* the index and enters ParallelForIterate<level - 1>.
OmpIteration(t) ==
  /\ mode = "omp" /\ Active(t)
  /\ frames[t] = <<>>
  /\ \E i \in pending :
       /\ pending' = pending \ {i}
       /\ index' = [index EXCEPT ![IndexOf(t)][SlotOf(D)] = i]
       /\ writer' = [writer EXCEPT ![IndexOf(t)][SlotOf(D)] = t]
       /\ frames' = [frames EXCEPT ![t] =
            <<[it |-> "omp", level |-> D, i |-> i, end |-> r[SlotOf(D)],
               inf |-> FALSE],
              NewFrame("flat", D - 1, r)>>]
       /\ picked' = [picked EXCEPT ![t] = Append(@, i)]
  /\ UNCHANGED bufVars
  /\ UNCHANGED <<mode, D, r, ndr, nthreads, status, Group, Local, GroupRange,
                 LocalRange, Index, calls, fail>>

\* ParallelForIterate<level>, level > 0: one turn of the loop sets the slot of
\* the index and enters ParallelForIterate<level - 1>.
LoopBody(t) ==
  /\ Active(t)
  /\ frames[t] # <<>>
  /\ LET fr == Top(frames[t]) IN
     /\ fr.level > 0
     /\ fr.i < fr.end
     /\ frames' = [frames EXCEPT ![t] =
                     Append(@, NewFrame(fr.it, fr.level - 1, RangeOf(fr.it)))]
     /\ CASE fr.it = "group" ->
               /\ Group' = [Group EXCEPT ![SlotOf(fr.level)] = fr.i]
               /\ UNCHANGED <<index, writer, Local>>
          [] fr.it = "local" ->
               /\ Local' = [Local EXCEPT ![SlotOf(fr.level)] = fr.i]
               /\ UNCHANGED <<index, writer, Group>>
          [] OTHER ->
               /\ index' = [index EXCEPT ![IndexOf(t)][SlotOf(fr.level)] = fr.i]
               /\ writer' = [writer EXCEPT ![IndexOf(t)][SlotOf(fr.level)] = t]
               /\ UNCHANGED <<Group, Local>>
  /\ UNCHANGED bufVars
  /\ UNCHANGED <<mode, D, r, ndr, nthreads, status, GroupRange, LocalRange,
                 Index, pending, calls, picked, fail>>

\* ParallelForIterate<level>, level > 0: the loop ends and the constructor returns.
LoopExit(t) ==
  /\ Active(t)
  /\ frames[t] # <<>>
  /\ LET fr == Top(frames[t]) IN
     /\ fr.level > 0
     /\ fr.i >= fr.end
  /\ frames' = [frames EXCEPT ![t] = Return(@)]
  /\ UNCHANGED bufVars
  /\ UNCHANGED <<mode, D, r, ndr, nthreads, status, index, writer, Group, Local,
                 GroupRange, LocalRange, Index, pending, calls, picked, fail>>

\* ParallelForIterate<0> of the flat launch: f(index), the user kernel is entered.
KernelCall(t) ==
  /\ Active(t)
  /\ frames[t] # <<>>
  /\ LET fr == Top(frames[t]) IN
     /\ fr.level = 0 /\ ~fr.inf /\ fr.it = "flat"
  /\ frames' = [frames EXCEPT ![t][Len(frames[t])].inf = TRUE]
  /\ calls' = [calls EXCEPT ![t] = Append(@,
                 [arg |-> index[IndexOf(t)],
                  pos |-> Pos(frames[t], {"omp", "flat"}),
                  wr |-> {writer[IndexOf(t)][k] : k \in 1..D}])]
  /\ UNCHANGED bufVars
  /\ UNCHANGED <<mode, D, r, ndr, nthreads, status, index, writer, Group, Local,
                 GroupRange, LocalRange, Index, pending, picked, fail>>

\* ParallelForIterate<0> of the iteration over the groups: iterateInWorkGroup(G)
\* enters the iteration over LocalRange with the index Local.
IterateInWorkGroup ==
  /\ Active(1)
  /\ frames[1] # <<>>
  /\ LET fr == Top(frames[1]) IN
     /\ fr.level = 0 /\ ~fr.inf /\ fr.it = "group"
  /\ frames' = [frames EXCEPT ![1] =
       Append([@ EXCEPT ![Len(@)].inf = TRUE], NewFrame("local", D, LocalRange))]
  /\ UNCHANGED bufVars
  /\ UNCHANGED <<mode, D, r, ndr, nthreads, status, index, writer, Group, Local,
                 GroupRange, LocalRange, Index, pending, calls, picked, fail>>

\* Index.set_global's argument in reconstructItem: Local + LocalRange*Group
\* (A faulty variant: the nd_range's Offset added.)
ReconstructGlobalWithOffset(l, lr, g) ==
  RangeAdd(ndr.Offset, RangeAdd(l, RangeMul(lr, g)))
ReconstructGlobal(l, lr, g) == RangeAdd(l, RangeMul(lr, g))

\* ParallelForIterate<0> of the iteration inside a group: reconstructItem(L)
\* sets Index from Local and Group and enters the user kernel, f(Index).
ReconstructItem ==
  /\ Active(1)
  /\ frames[1] # <<>>
  /\ LET fr == Top(frames[1]) IN
     /\ fr.level = 0 /\ ~fr.inf /\ fr.it = "local"
  /\ frames' = [frames EXCEPT ![1][Len(frames[1])].inf = TRUE]
  /\ Index' = [Index EXCEPT !.LocalIndex = Local,
                            !.GlobalIndex = ReconstructGlobal(Local, LocalRange, Group)]
  /\ calls' = [calls EXCEPT ![1] = Append(@,
                 [arg |-> Index',
                  G |-> Pos(frames[1], {"group"}),
                  L |-> Pos(frames[1], {"local"})])]
  /\ UNCHANGED bufVars
  /\ UNCHANGED <<mode, D, r, ndr, nthreads, status, index, writer, Group, Local,
                 GroupRange, LocalRange, pending, picked, fail>>

\* The user kernel returns, and ParallelForIterate<0> with it.
KernelReturn(t) ==
  /\ Active(t)
  /\ frames[t] # <<>>
  /\ LET fr == Top(frames[t]) IN
     /\ fr.level = 0 /\ fr.inf /\ fr.it \in {"flat", "local"}
  /\ frames' = [frames EXCEPT ![t] = Return(@)]
  /\ UNCHANGED bufVars
  /\ UNCHANGED <<mode, D, r, ndr, nthreads, status, index, writer, Group, Local,
                 GroupRange, LocalRange, Index, pending, calls, picked, fail>>

\* The user kernel throws.  Nothing between f and the caller of parallel_for
\* catches: outside OpenMP the exception unwinds every constructor and leaves
\* parallel_for; inside the parallel region it leaves the structured block,
\* which ends in std::terminate while the other threads are still running.
KernelThrow(t) ==
  /\ Active(t)
  /\ status = "running"
  /\ frames[t] # <<>>
  /\ LET fr == Top(frames[t]) IN
     /\ fr.level = 0 /\ fr.inf /\ fr.it \in {"flat", "local"}
  /\ fail' = [at |-> TotalCalls, by |-> t]
  /\ IF mode = "omp"
     THEN status' = "terminating" /\ UNCHANGED frames
     ELSE status' = "thrown" /\ frames' = [frames EXCEPT ![t] = <<>>]
  /\ UNCHANGED bufVars
  /\ UNCHANGED <<mode, D, r, ndr, nthreads, index, writer, Group, Local,
                 GroupRange, LocalRange, Index, pending, calls, picked>>

\* std::terminate ends the process.
Abort ==
  /\ status = "terminating"
  /\ status' = "terminated"
  /\ UNCHANGED bufVars
  /\ UNCHANGED <<mode, D, r, ndr, nthreads, frames, index, writer, Group, Local,
                 GroupRange, LocalRange, Index, pending, calls, picked, fail>>

\* parallel_for returns to its caller.
ParallelForReturn ==
  /\ status = "running"
  /\ LaunchDone
  /\ status' = "returned"
  /\ UNCHANGED bufVars
  /\ UNCHANGED <<mode, D, r, ndr, nthreads, frames, index, writer, Group, Local,
                 GroupRange, LocalRange, Index, pending, calls, picked, fail>>

Next ==
  \/ ParallelForSeq
  \/ ParallelForOmp
  \/ ParallelForNd
  \/ \E t \in Threads : OmpIteration(t)
  \/ \E t \in Threads : LoopBody(t)
  \/ \E t \in Threads : LoopExit(t)
  \/ \E t \in Threads : KernelCall(t)
  \/ IterateInWorkGroup
  \/ ReconstructItem
  \/ \E t \in Threads : KernelReturn(t)
  \/ \E t \in Threads : KernelThrow(t)
  \/ Abort
  \/ ParallelForReturn

Spec == Init /\ [][Next]_vars

-----------------------------------------------------------------------------
(* Properties of the launches                                              *)

\* The coordinates c with 0 <= c[k] < v[k] for every k.
Box(v) == {c \in [DOMAIN v -> UNION {0..(v[k] - 1) : k \in DOMAIN v}] :
             \A k \in DOMAIN v : c[k] < v[k]}

\* Every kernel invocation made so far, as <<thread, rank in the thread's log>>.
Invocations == UNION {{<<t, k>> : k \in 1..Len(calls[t])} : t \in Threads}

Call(tk) == calls[tk[1]][tk[2]]

\* C1: flat launch, sequential mode: the kernel is invoked exactly once for every
\* coordinate of the box [0,S[0]) x ... x [0,S[D-1]) and for no other one
\* (prod S[i] invocations, none when some S[i] = 0), and the coordinate it
\* receives holds, in every slot, the counter of that dimension's loop.
C1_FlatSequentialCoverage ==
  mode = "seq" =>
    /\ \A k \in 1..Len(calls[1]) :
         /\ calls[1][k].arg = calls[1][k].pos
         /\ calls[1][k].arg \in Box(r)
         /\ \A j \in 1..Len(calls[1]) : calls[1][j].arg = calls[1][k].arg => j = k
    /\ status = "returned" =>
         /\ Len(calls[1]) = Prod(r)
         /\ {calls[1][k].arg : k \in 1..Len(calls[1])} = Box(r)

C1_Witness ==
  /\ mode = "seq" /\ status = "returned"
  /\ D = 3 /\ \A k \in 1..D : r[k] = 2
  /\ Len(calls[1]) = 8

\* C2: flat launch under OpenMP: whatever the team, the distribution of the
\* outermost values and the interleaving, the kernel is invoked exactly once per
\* coordinate of the box and never outside it, every outermost value is handed
\* to exactly one thread, and the coordinate an invocation receives was written
\* by the invoking thread alone.
C2_OmpCoverage ==
  mode = "omp" =>
    /\ \A tk \in Invocations :
         /\ Call(tk).arg = Call(tk).pos
         /\ Call(tk).arg \in Box(r)
         /\ Call(tk).wr = {tk[1]}
         /\ \A uj \in Invocations : Call(uj).arg = Call(tk).arg => uj = tk
    /\ \A t, u \in Threads :
         \A k \in 1..Len(picked[t]), j \in 1..Len(picked[u]) :
           picked[t][k] = picked[u][j] => (t = u /\ k = j)
    /\ status = "returned" =>
         /\ {Call(tk).arg : tk \in Invocations} = Box(r)
         /\ UNION {{picked[t][k] : k \in 1..Len(picked[t])} : t \in Threads}
              = 0..(r[1] - 1)

C2_Witness ==
  /\ mode = "omp" /\ status = "returned"
  /\ nthreads = 2 /\ D = 2 /\ r[1] = 2 /\ r[2] >= 1
  /\ Len(calls[1]) >= 1 /\ Len(calls[2]) >= 1

\* C3: grouped launch: the item of every invocation, made for the group
\* coordinate G and the local coordinate L, has get_global() = L + LocalSize*G
\* element-wise, with no offset term whatever the nd_range's offset, and
\* get_local() = L; G lies in the group range and L in the local range.
C3_Reconstruction ==
  mode = "nd" =>
    \A k \in 1..Len(calls[1]) :
      LET c == calls[1][k] IN
      /\ c.G \in Box(GroupRange)
      /\ c.L \in Box(ndr.LocalRange)
      /\ \A d \in 1..D :
           c.arg.GlobalIndex[d] = c.L[d] + ndr.LocalRange[d] * c.G[d]
      /\ c.arg.LocalIndex = c.L

C3_Witness ==
  /\ mode = "nd"
  /\ ndr.Offset[1] > 0
  /\ \E k \in 1..Len(calls[1]) :
       /\ calls[1][k].G[1] > 0 /\ calls[1][k].L[1] > 0
       /\ calls[1][k].arg.GlobalIndex[1] = 3

\* Every LocalSize[i] > 0 divides GlobalSize[i].
EvenDivision ==
  \A d \in 1..D : ndr.LocalRange[d] > 0 /\ ndr.GlobalRange[d] % ndr.LocalRange[d] = 0

\* C4: grouped launch with every LocalSize[i] > 0 dividing GlobalSize[i]: the
\* kernel is invoked prod GlobalSize[i] times, and the global coordinates of the
\* items are the points of [0,GlobalSize[0]) x ... x [0,GlobalSize[D-1]), each
\* exactly once.
C4_GroupedCoverage ==
  (mode = "nd" /\ EvenDivision) =>
    /\ \A k \in 1..Len(calls[1]) :
         /\ calls[1][k].arg.GlobalIndex \in Box(ndr.GlobalRange)
         /\ \A j \in 1..Len(calls[1]) :
              calls[1][j].arg.GlobalIndex = calls[1][k].arg.GlobalIndex => j = k
    /\ status = "returned" =>
         /\ Len(calls[1]) = Prod(ndr.GlobalRange)
         /\ {calls[1][k].arg.GlobalIndex : k \in 1..Len(calls[1])}
              = Box(ndr.GlobalRange)

C4_Witness ==
  /\ mode = "nd" /\ status = "returned"
  /\ D = 2 /\ ndr.GlobalRange = <<4, 2>> /\ ndr.LocalRange = <<2, 2>>
  /\ Len(calls[1]) = 8

\* C6 (at the return): when parallel_for has returned, no constructor of the
\* iterator and no kernel invocation is in progress on any thread, no iteration
\* is left to hand out and every coordinate has been visited.
C6_AtReturn ==
  (mode \in {"seq", "omp"} /\ status = "returned") =>
    /\ \A t \in Threads : frames[t] = <<>>
    /\ pending = {}
    /\ TotalCalls = Prod(r)

\* C6: every launch is synchronous, sequential or under OpenMP: parallel_for
\* returns only after every coordinate has been visited and every kernel
\* invocation has returned, and once it has returned no kernel invocation
\* starts or runs.
C6_Synchronous ==
  /\ []C6_AtReturn
  /\ [][(mode \in {"seq", "omp"} /\ status = "returned") =>
          (calls' = calls /\ frames' = frames)]_vars

C6_Witness ==
  /\ mode = "omp" /\ status = "returned"
  /\ nthreads = 2 /\ r[1] = 2
  /\ Len(calls[1]) >= 1 /\ Len(calls[2]) >= 1

\* C7: when a kernel invocation fails, the failure reaches the caller of the
\* launch and no kernel invocation is made after the failing one.
C7_FailurePropagates ==
  fail.at # 0 => (status = "thrown" /\ TotalCalls = fail.at)

\* C8: a grouped launch whose LocalSize has a zero component is rejected: it
\* yields no group range, runs nothing and invokes no kernel.
C8_ZeroLocalRejected ==
  (mode = "nd" /\ \E d \in 1..D : ndr.LocalRange[d] = 0) =>
    (status \in {"init", "trapped"} /\ TotalCalls = 0)

\* a comes strictly before b in lexicographic order, slot 1 (dimension 0) the
\* most significant.
LexLess(a, b) ==
  \E d \in DOMAIN a :
    /\ a[d] < b[d]
    /\ \A e \in DOMAIN a : e < d => a[e] = b[e]

\* The number of points a step of slot d skips in that order: the product of
\* the sizes of the slots after d.
RECURSIVE Weight(_, _)
Weight(v, d) == IF d >= Len(v) THEN 1 ELSE v[d + 1] * Weight(v, d + 1)

\* The coordinate of 0-based rank n in the lexicographic enumeration of
\* Box(v), dimension 0 slowest-varying and the last dimension fastest.
Unrank(v, n) == [d \in DOMAIN v |-> (n \div Weight(v, d)) % v[d]]

\* The group and local coordinates of an invocation of a grouped launch, as
\* one coordinate: the group's slots first.
GroupThenLocal(c) == c.G \o c.L

\* C11: the coordinates reach the kernel in an order fixed by the sizes alone.
\* Flat launch, sequential mode: the k-th invocation receives the k-th point of
\* the box in lexicographic order, dimension 0 slowest-varying and dimension
\* D-1 fastest, so the sequence is strictly increasing and the same for every
\* launch over the same size.  Grouped launch: the same holds of the pairs
\* (group coordinate, local coordinate) over group range x local range, so the
\* groups never go backwards and every work-item of a group is invoked before
\* any work-item of a later group.
C11_SequentialOrder ==
  /\ mode = "seq" =>
       \A k \in 1..Len(calls[1]) :
         /\ calls[1][k].arg = Unrank(r, k - 1)
         /\ \A j \in 1..(k - 1) : LexLess(calls[1][j].arg, calls[1][k].arg)
  /\ mode = "nd" =>
       \A k \in 1..Len(calls[1]) :
         /\ GroupThenLocal(calls[1][k]) = Unrank(GroupRange \o LocalRange, k - 1)
         /\ calls[1][k].arg.LocalIndex = calls[1][k].L
         /\ \A j \in 1..(k - 1) :
              /\ LexLess(GroupThenLocal(calls[1][j]), GroupThenLocal(calls[1][k]))
              /\ ~LexLess(calls[1][k].G, calls[1][j].G)

C11_Witness ==
  /\ mode = "seq" /\ status = "returned"
  /\ D = 3 /\ \A k \in 1..D : r[k] = 2
  /\ Len(calls[1]) = 8
  /\ calls[1][2].arg = <<0, 0, 1>>
  /\ calls[1][3].arg = <<0, 1, 0>>
  /\ calls[1][5].arg = <<1, 0, 0>>

\* The grouped case of C11 at work: two groups of two work-items along
\* dimension 0, the first group finished before the second starts.
C11_GroupedAtWork ==
  /\ mode = "nd" /\ status = "returned"
  /\ D = 2 /\ ndr.GlobalRange = <<4, 2>> /\ ndr.LocalRange = <<2, 2>>
  /\ Len(calls[1]) = 8
  /\ calls[1][4].G = <<0, 0>> /\ calls[1][4].L = <<1, 1>>
  /\ calls[1][5].G = <<1, 0>> /\ calls[1][5].L = <<0, 0>>

-----------------------------------------------------------------------------
(* get_group_range() on its own                                            *)

DivRanges(d) ==
  {[GlobalRange |-> g, LocalRange |-> l, Offset |-> Zero(d)] :
     g \in [1..d -> 0..MaxDivGlobal], l \in [1..d -> 0..MaxDivLocal]}

InitRange ==
  /\ mode = "div"
  /\ D \in 1..MaxDims
  /\ r = <<>>
  /\ ndr \in DivRanges(D)
  /\ nthreads = 1
  /\ LaunchLocalsInit
  /\ NoBuffers

\* range<> g = nd.get_group_range(): operator/ works on copies of GlobalRange
\* and LocalRange and returns a new range.
GetGroupRangeCall ==
  /\ mode = "div" /\ status = "init"
  /\ \E g \in GetGroupRange(ndr) :
       IF g.trap
       THEN status' = "trapped" /\ UNCHANGED GroupRange
       ELSE status' = "returned" /\ GroupRange' = g.value
  /\ UNCHANGED bufVars
  /\ UNCHANGED <<mode, D, r, ndr, nthreads, frames, index, writer, Group, Local,
                 LocalRange, Index, pending, calls, picked, fail>>

NextRange == GetGroupRangeCall

SpecRange == InitRange /\ [][NextRange]_vars

\* ceil(a / b) for a >= 0, b > 0: the least q with q * b >= a.
Ceil(a, b) == CHOOSE q \in 0..a : q * b >= a /\ \A p \in 0..(q - 1) : p * b < a

\* C5: for GlobalSize >= 0 and LocalSize > 0 in every dimension,
\* get_group_range() returns ceil(GlobalSize[i] / LocalSize[i]) in each
\* dimension i, and leaves GlobalSize and LocalSize of the nd_range as they were.
C5_GroupRange ==
  [][(/\ mode = "div" /\ status = "init"
      /\ \A d \in 1..D : ndr.GlobalRange[d] >= 0 /\ ndr.LocalRange[d] > 0)
     => /\ status' = "returned"
        /\ \A d \in 1..D :
             GroupRange'[d] = Ceil(ndr.GlobalRange[d], ndr.LocalRange[d])
        /\ ndr' = ndr]_vars

C5_Witness ==
  /\ mode = "div" /\ status = "returned"
  /\ ndr.GlobalRange = <<10, 10>> /\ ndr.LocalRange = <<3, 3>>
  /\ GroupRange = <<4, 4>>

-----------------------------------------------------------------------------
(* Buffers and accessors                                                   *)
(*                                                                         *)
(* A boost::multi_array_ref is the pair of the storage it points to and    *)
(* its extents (C storage order, index bases 0); a reference into it is    *)
(* the storage, an offset in elements and the extents of what is referred  *)
(* to: <<>> for one element, the remaining extents for a sub-array.        *)

NumElements(extents) == Prod(extents)

\* boost: the stride of dimension k in C storage order.
RECURSIVE Stride(_, _)
Stride(extents, k) ==
  IF k = Len(extents) THEN 1 ELSE extents[k + 1] * Stride(extents, k + 1)

\* boost: multi_array_ref::operator()(index list): the element's offset.
RECURSIVE OffsetFrom(_, _, _)
OffsetFrom(extents, idx, k) ==
  IF k > Len(extents) THEN 0
  ELSE idx[k] * Stride(extents, k) + OffsetFrom(extents, idx, k + 1)

\* (A faulty variant: Fortran storage order.)
OffsetColumnMajor(extents, idx) ==
  IF Len(extents) = 1 THEN idx[1]
  ELSE IF Len(extents) = 2 THEN idx[1] + extents[1] * idx[2]
  ELSE idx[1] + extents[1] * (idx[2] + extents[2] * idx[3])
Offset(extents, idx) == OffsetFrom(extents, idx, 1)

\* buffer(range<dimensions> r): Allocation(r), Access(Allocation), ReadOnly(false)
BufferOfRange(rg, region) ==
  [Allocation |-> region,
   Access |-> [base |-> region, extents |-> rg],
   ReadOnly |-> FALSE]

\* buffer(T * host_data, range<dimensions> r): Access(host_data, r), ReadOnly(false)
BufferOfHost(rg) ==
  [Allocation |-> "none",
   Access |-> [base |-> "host", extents |-> rg],
   ReadOnly |-> FALSE]

\* buffer(const T * host_data, range<dimensions> r): Access(host_data, r), ReadOnly(true)
BufferOfConstHost(rg) ==
  [Allocation |-> "none",
   Access |-> [base |-> "host", extents |-> rg],
   ReadOnly |-> TRUE]

\* buffer(buffer<T, dimensions> &b): Allocation(b.Access) is a new multi_array
\* holding a copy of the elements b.Access views; Access(Allocation) views it.
\* (A faulty variant: Access(b.Access), a view of b's storage.)
BufferCopyAliasing(b, region) ==
  [Allocation |-> region, Access |-> b.Access, ReadOnly |-> FALSE]
BufferCopy(b, region) ==
  [Allocation |-> region,
   Access |-> [base |-> region, extents |-> b.Access.extents],
   ReadOnly |-> FALSE]

\* accessor(buffer &targetBuffer) : Array(targetBuffer.Access)
Accessor(b) == [Array |-> b.Access]

\* accessor::operator[](id<dimensionality> Index): Array(Index)
AtId(acc, idx) ==
  [base |-> acc.Array.base, off |-> Offset(acc.Array.extents, idx),
   extents |-> <<>>]

\* item::get_global()
GetGlobal(it) == it.GlobalIndex

\* accessor::operator[](item<dimensionality> Index): Array(Index.get_global())
AtItem(acc, it) == AtId(acc, GetGlobal(it))

\* accessor::operator[](size_t Index): Array[Index], boost's operator[]: an
\* element of a one-dimensional array, otherwise the sub-array Index of the
\* first dimension.
AtSize(acc, n) ==
  [base |-> acc.Array.base, off |-> n * Stride(acc.Array.extents, 1),
   extents |-> Tail(acc.Array.extents)]

\* The value of the element a reference refers to.
Read(ref) == heap[ref.base][ref.off + 1]

\* The indices multi_array_ref accepts for the extents.
InRange(extents) == Box(extents)

BufferShapes ==
  {e \in UNION {[1..d -> 1..MaxExtent] : d \in 1..MaxDims} :
     NumElements(e) <= MaxElems}

Buffer(b) == IF b = 1 THEN B1 ELSE B2

\* The elements of the storage a buffer's Access views.
Contents(b) == heap[b.Access.base]

InitBuf ==
  /\ mode = "buf"
  /\ r = <<>> /\ ndr = NoNdRange /\ nthreads = 1
  /\ \E e \in BufferShapes :
       /\ D = Len(e)
       /\ \/ /\ B1 = BufferOfRange(e, "alloc1")
             /\ heap = [g \in Regions |->
                          IF g = "alloc1" THEN [k \in 1..NumElements(e) |-> 0]
                          ELSE <<>>]
          \/ /\ B1 \in {BufferOfHost(e), BufferOfConstHost(e)}
             /\ heap = [g \in Regions |->
                          IF g = "host" THEN [k \in 1..NumElements(e) |-> k]
                          ELSE <<>>]
  /\ LaunchLocalsInit
  /\ B2 = NoBuffer
  /\ writes = 0
  /\ last = NoWrite

\* buffer<T, dimensions> B2 { B1 };
CopyConstruct ==
  /\ mode = "buf" /\ B2 = NoBuffer
  /\ B2' = BufferCopy(B1, "alloc2")
  /\ heap' = [heap EXCEPT !["alloc2"] = Contents(B1)]
  /\ UNCHANGED <<B1, writes, last>>
  /\ UNCHANGED launchVars

\* The value the next write stores: distinct from every value stored before.
NextValue == 100 + writes

Store(b, ref, idx) ==
  /\ heap' = [heap EXCEPT ![ref.base][ref.off + 1] = NextValue]
  /\ writes' = writes + 1
  /\ last' = [buf |-> b, idx |-> idx, val |-> NextValue]
  /\ UNCHANGED <<B1, B2>>
  /\ UNCHANGED launchVars

\* A[Index] = v for an id<> Index, A an accessor of buffer b
WriteById(b) ==
  /\ mode = "buf" /\ Buffer(b) # NoBuffer /\ writes < MaxWrites
  /\ \E idx \in InRange(Buffer(b).Access.extents) :
       Store(b, AtId(Accessor(Buffer(b)), idx), idx)

\* A[Index] = v for an item<> Index
WriteByItem(b) ==
  /\ mode = "buf" /\ Buffer(b) # NoBuffer /\ writes < MaxWrites
  /\ \E idx \in InRange(Buffer(b).Access.extents) :
       LET it == [GlobalIndex |-> idx, LocalIndex |-> Zero(D)] IN
       Store(b, AtItem(Accessor(Buffer(b)), it), idx)

\* A[Index] = v for a size_t Index: an element only when A is one-dimensional
WriteBySize(b) ==
  /\ mode = "buf" /\ Buffer(b) # NoBuffer /\ writes < MaxWrites
  /\ D = 1
  /\ \E n \in 0..(Buffer(b).Access.extents[1] - 1) :
       Store(b, AtSize(Accessor(Buffer(b)), n), <<n>>)

NextBuf ==
  \/ CopyConstruct
  \/ \E b \in {1, 2} : WriteById(b)
  \/ \E b \in {1, 2} : WriteByItem(b)
  \/ \E b \in {1, 2} : WriteBySize(b)

SpecBuf == InitBuf /\ [][NextBuf]_vars

-----------------------------------------------------------------------------
(* Properties of buffers and accessors                                     *)

Constructed == {b \in {1, 2} : Buffer(b) # NoBuffer}

\* The linear offset of a coordinate in the flattened storage, row-major.
RowMajor(extents, idx) ==
  IF Len(extents) = 1 THEN idx[1]
  ELSE IF Len(extents) = 2 THEN idx[1] * extents[2] + idx[2]
  ELSE (idx[1] * extents[2] + idx[2]) * extents[3] + idx[3]

ItemAt(idx) == [GlobalIndex |-> idx, LocalIndex |-> Zero(Len(idx))]

C10_CopyIsolation ==
  [][/\ (mode = "buf" /\ B2 = NoBuffer /\ B2' # NoBuffer) =>
          /\ B2'.Access.base = B2'.Allocation
          /\ B2'.Access.base \notin {B1.Access.base, "host"}
          /\ B2'.Access.extents = B1.Access.extents
          /\ heap'[B2'.Access.base] = heap[B1.Access.base]
          /\ heap'[B1.Access.base] = heap[B1.Access.base]
     /\ (mode = "buf" /\ writes' # writes /\ last'.buf = 2) =>
          /\ \A idx \in InRange(B1.Access.extents) :
               heap'[AtId(Accessor(B1), idx).base][AtId(Accessor(B1), idx).off + 1]
                 = Read(AtId(Accessor(B1), idx))
          /\ heap'["host"] = heap["host"]
          /\ B1' = B1]_vars

C10_Witness ==
  /\ mode = "buf" /\ B1.ReadOnly /\ B2 # NoBuffer
  /\ last.buf = 2 /\ writes = 2
  /\ Contents(B2) # Contents(B1)
  /\ Contents(B1) = [k \in 1..NumElements(B1.Access.extents) |-> k]

====
